---- MODULE Spec2Model ----
(***************************************************************************)
(* Model of the Laserontharing Almere backend (src/main.py,                *)
(* src/schemas.py): the catalog resolvers list_services / list_packages,   *)
(* the price calculator calculate_price and the booking / inquiry intake.  *)
(* The persistence store is the environment: every get_documents call may  *)
(* raise or return any list of stored records, so the store may change     *)
(* between any two reads.                                                  *)
(*                                                                         *)
(* Python floats are modelled as exact rationals [n |-> numerator,         *)
(* d |-> denominator] in lowest terms.  Every price of the model is a      *)
(* dyadic rational (denominator 1 or 32), for which float addition and the *)
(* multiplication by 0.75 are exact, and round(x, 2) is the correctly      *)
(* rounded, ties-to-even decimal rounding that CPython performs.           *)
(***************************************************************************)
EXTENDS Integers, Sequences, FiniteSets, TLC

VARIABLES
    DEFAULT_SERVICES,   \* module global, main.py:49
    DEFAULT_PACKAGES,   \* module global, main.py:63
    pc,                 \* position of the request handler
    handler,            \* which endpoint is being / was last served
    payload,            \* the request body of the current request
    services,           \* calculate_price local: dict code -> Service
    packages,           \* calculate_price local: list of Package
    k,                  \* calculate_price: number of selected codes consumed
    items,              \* calculate_price local
    subtotal,           \* calculate_price local (float)
    response,           \* the HTTP response of the current request
    calls,              \* persistence calls made by the current request
    docs                \* records returned by the latest get_documents call

vars == <<DEFAULT_SERVICES, DEFAULT_PACKAGES, pc, handler, payload, services,
          packages, k, items, subtotal, response, calls, docs>>

-----------------------------------------------------------------------------
(* Bounds of the model *)

\* longest selected_codes list of a calc request
MaxSel == 3
\* most records a get_documents call returns
MaxDocs == 2

-----------------------------------------------------------------------------
(* Python values *)

None == "None"

RECURSIVE GCD(_, _)
GCD(a, b) == IF b = 0 THEN a ELSE GCD(b, a % b)

\* a float with value n/d, d > 0, in lowest terms
Float(n, d) ==
    LET a == IF n < 0 THEN -n ELSE n
        g == GCD(a, d)
    IN  [n |-> n \div g, d |-> d \div g]

Eur(x) == Float(x, 1)

FAdd(f, g) == Float(f.n * g.d + g.n * f.d, f.d * g.d)

\* x * 0.75
FMul075(f) == Float(3 * f.n, 4 * f.d)

\* round(x, 2) for x >= 0: nearest multiple of 1/100, ties to even
Round2(f) ==
    LET x == f.n * 100
        q == x \div f.d
        r == x % f.d
        c == IF 2 * r < f.d THEN q
             ELSE IF 2 * r > f.d THEN q + 1
             ELSE IF q % 2 = 0 THEN q ELSE q + 1
    IN  Float(c, 100)

SeqsUpTo(S, n) == UNION {[1..m -> S] : m \in 0..n}

Restrict(d, keys) == [key \in (DOMAIN d) \cap keys |-> d[key]]

-----------------------------------------------------------------------------
(* schemas.py *)

ServiceFields ==
    {"name", "category", "code", "price_single", "price_package_6x", "duration_min"}
ServiceRequired == {"name", "category", "code", "price_single", "duration_min"}
ServiceDefaults == [price_package_6x |-> None]

\* does Service(**kw) validate
ServiceValid(kw) ==
    /\ ServiceRequired \subseteq DOMAIN kw
    /\ kw.price_single.n >= 0
    /\ ("price_package_6x" \in DOMAIN kw /\ kw.price_package_6x # None)
          => kw.price_package_6x.n >= 0
    /\ kw.duration_min >= 5

\* Service(**kw), for kw that validates
Service(kw) ==
    [f \in ServiceFields |-> IF f \in DOMAIN kw THEN kw[f] ELSE ServiceDefaults[f]]

PackageFields ==
    {"title", "description", "code", "included_codes", "price_single", "promo_6_plus_2"}
PackageRequired == {"title", "code", "included_codes", "price_single"}
PackageDefaults == [description |-> None, promo_6_plus_2 |-> TRUE]

PackageValid(kw) ==
    /\ PackageRequired \subseteq DOMAIN kw
    /\ kw.price_single.n >= 0

Package(kw) ==
    [f \in PackageFields |-> IF f \in DOMAIN kw THEN kw[f] ELSE PackageDefaults[f]]

-----------------------------------------------------------------------------
(* main.py: the built-in catalog *)

Svc(name, category, code, price, duration) ==
    Service([name |-> name, category |-> category, code |-> code,
             price_single |-> Eur(price), duration_min |-> duration])

SeedServices ==
    << Svc("Oksels", "Oksels", "OKS", 39, 15),
       Svc("Bikinilijn klein", "Bikinilijn", "BIK-K", 49, 20),
       Svc("Bikinilijn groot", "Bikinilijn", "BIK-G", 69, 25),
       Svc("Onderbenen", "Benen", "BEN-OND", 79, 30),
       Svc("Bovenbenen", "Benen", "BEN-BOV", 89, 35),
       Svc("Hele benen", "Benen", "BEN-HELE", 129, 55),
       Svc("Bovenlip", "Gezicht", "GEZ-LIP", 29, 10),
       Svc("Kin", "Gezicht", "GEZ-KIN", 29, 10),
       Svc("Gehele gelaat", "Gezicht", "GEZ-FULL", 79, 35),
       Svc("Onderarmen", "Armen", "ARM-OND", 59, 25),
       Svc("Hele armen", "Armen", "ARM-HELE", 89, 35) >>

SeedPackages ==
    << Package([title |-> "Full body",
                description |-> "Hele armen + oksels + buik + hele benen + bikinilijn klein",
                code |-> "FB-STD",
                included_codes |-> <<"ARM-HELE", "OKS", "BEN-HELE", "BIK-K">>,
                price_single |-> Eur(279),
                promo_6_plus_2 |-> TRUE]),
       Package([title |-> "Full body + gelaat",
                description |-> "Full body met gehele gelaat als luxere variant",
                code |-> "FB-LUX",
                included_codes |-> <<"ARM-HELE", "OKS", "BEN-HELE", "BIK-K", "GEZ-FULL">>,
                price_single |-> Eur(329),
                promo_6_plus_2 |-> TRUE]) >>

-----------------------------------------------------------------------------
(* The persistence collaborator (database.get_documents / create_document) *)

\* records the "service" collection may hold: two valid ones carrying the
\* store's _id, with the same code, which is also a package code, and one
\* with duration_min < 5
StoredServices ==
    { [_id |-> "s1", name |-> "Rug", category |-> "Rug", code |-> "P",
       price_single |-> Float(13, 32), duration_min |-> 30],
      [_id |-> "s2", name |-> "Rug groot", category |-> "Rug", code |-> "P",
       price_single |-> Eur(45), duration_min |-> 40],
      [_id |-> "s3", name |-> "Nek", category |-> "Rug", code |-> "NEK",
       price_single |-> Eur(25), duration_min |-> 3] }

\* records the "package" collection may hold: two valid ones with the same
\* code, and one with a negative price
StoredPackages ==
    { [_id |-> "p1", title |-> "Duo", code |-> "P",
       included_codes |-> <<"OKS", "BIK-K">>, price_single |-> Float(6387, 32)],
      [_id |-> "p2", title |-> "Duo plus", description |-> "Duo met rug", code |-> "P",
       included_codes |-> <<"OKS", "BIK-K", "P">>, price_single |-> Eur(150),
       promo_6_plus_2 |-> FALSE],
      [_id |-> "p3", title |-> "Trio", code |-> "TRIO",
       included_codes |-> <<>>, price_single |-> Float(-1, 1)] }

Stored(coll) == IF coll = "service" THEN StoredServices ELSE StoredPackages

\* get_documents(coll): raises, or returns a (possibly empty) list of records
GetDocumentsOutcomes(coll) ==
    {[ok |-> FALSE, docs |-> <<>>]}
        \cup {[ok |-> TRUE, docs |-> s] : s \in SeqsUpTo(Stored(coll), MaxDocs)}

\* create_document(coll, record): raises with a message, or returns the new id
CreateDocumentOutcomes ==
    {[ok |-> TRUE, id |-> i, msg |-> None] : i \in {"id-1", "id-2"}}
        \cup {[ok |-> FALSE, id |-> None, msg |-> m] :
                 m \in {"Database not available", "duplicate key"}}

GetCall(coll, out) == [op |-> "get_documents", coll |-> coll, ok |-> out.ok]
CreateCall(coll, record, out) ==
    [op |-> "create_document", coll |-> coll, record |-> record, ok |-> out.ok,
     id |-> out.id, msg |-> out.msg]

-----------------------------------------------------------------------------
(* main.py: catalog resolvers.  The result of a call is                    *)
(* [raised |-> FALSE, value |-> v] or [raised |-> TRUE, value |-> None].   *)

Return(v) == [raised |-> FALSE, value |-> v]
Raise == [raised |-> TRUE, value |-> None]

\* list_services with "if docs is not None" for "if docs"
list_services_no_fallback_on_empty(out, defaults) ==
    IF /\ out.ok
       /\ \A i \in DOMAIN out.docs : ServiceValid(Restrict(out.docs[i], ServiceFields))
    THEN Return([i \in DOMAIN out.docs |-> Service(Restrict(out.docs[i], ServiceFields))])
    ELSE Return(defaults)

\* list_services catching the validation error per record: invalid records
\* are left out, the defaults are used only when nothing is left
list_services_skip_invalid(out, defaults) ==
    LET good == SelectSeq(out.docs,
                          LAMBDA d : ServiceValid(Restrict(d, ServiceFields)))
    IN  IF out.ok /\ good # <<>>
        THEN Return([i \in DOMAIN good |-> Service(Restrict(good[i], ServiceFields))])
        ELSE Return(defaults)

\* list_services(), given what get_documents("service") did
list_services(out, defaults) ==
    IF /\ out.ok
       /\ out.docs # <<>>
       /\ \A i \in DOMAIN out.docs : ServiceValid(Restrict(out.docs[i], ServiceFields))
    THEN Return([i \in DOMAIN out.docs |-> Service(Restrict(out.docs[i], ServiceFields))])
    ELSE Return(defaults)

\* list_packages without its try / except
list_packages_uncaught(out, defaults) ==
    IF ~out.ok
    THEN Raise
    ELSE IF out.docs = <<>>
    THEN Return(defaults)
    ELSE IF \A i \in DOMAIN out.docs : PackageValid(Restrict(out.docs[i], PackageFields))
    THEN Return([i \in DOMAIN out.docs |-> Package(Restrict(out.docs[i], PackageFields))])
    ELSE Raise

\* list_packages(), given what get_documents("package") did
list_packages(out, defaults) ==
    IF /\ out.ok
       /\ out.docs # <<>>
       /\ \A i \in DOMAIN out.docs : PackageValid(Restrict(out.docs[i], PackageFields))
    THEN Return([i \in DOMAIN out.docs |-> Package(Restrict(out.docs[i], PackageFields))])
    ELSE Return(defaults)

-----------------------------------------------------------------------------
(* main.py: calculate_price, the pure parts *)

\* {s.code: s for s in list}: a later entry replaces an earlier one
ServicesDict(list) ==
    [c \in {list[i].code : i \in DOMAIN list} |->
        list[CHOOSE i \in DOMAIN list :
                /\ list[i].code = c
                /\ \A j \in DOMAIN list : list[j].code = c => j <= i]]

\* FirstPackage keeping the last match instead of the first
FirstPackage_last(pkgs, code) ==
    IF \E i \in DOMAIN pkgs : pkgs[i].code = code
    THEN pkgs[CHOOSE i \in DOMAIN pkgs :
                /\ pkgs[i].code = code
                /\ \A j \in DOMAIN pkgs : pkgs[j].code = code => j <= i]
    ELSE None

\* next((p for p in pkgs if p.code == code), None)
FirstPackage(pkgs, code) ==
    IF \E i \in DOMAIN pkgs : pkgs[i].code = code
    THEN pkgs[CHOOSE i \in DOMAIN pkgs :
                /\ pkgs[i].code = code
                /\ \A j \in DOMAIN pkgs : pkgs[j].code = code => i <= j]
    ELSE None

ServiceItem(code, s) == [code |-> code, name |-> s.name, price |-> s.price_single]

\* PackageItem without its flag
PackageItem_no_flag(code, p) ==
    [code |-> code, name |-> p.title, price |-> p.price_single]

PackageItem(code, p) ==
    [code |-> code, name |-> p.title, price |-> p.price_single, package |-> TRUE]

\* LoopBody skipping a code that already has a line item
LoopBody_dedup(code, svc, pkgs, its, sub) ==
    IF \E i \in DOMAIN its : its[i].code = code
    THEN [items |-> its, subtotal |-> sub]
    ELSE IF code \in DOMAIN svc
    THEN [items |-> Append(its, [code |-> code, name |-> svc[code].name,
                                 price |-> svc[code].price_single]),
          subtotal |-> FAdd(sub, svc[code].price_single)]
    ELSE IF \E i \in DOMAIN pkgs : pkgs[i].code = code
         THEN LET pkg == pkgs[CHOOSE i \in DOMAIN pkgs :
                                /\ pkgs[i].code = code
                                /\ \A j \in DOMAIN pkgs : pkgs[j].code = code => i <= j]
              IN  [items |-> Append(its, [code |-> code, name |-> pkg.title,
                                          price |-> pkg.price_single,
                                          package |-> TRUE]),
                   subtotal |-> FAdd(sub, pkg.price_single)]
         ELSE [items |-> its, subtotal |-> sub]

\* LoopBody without "subtotal += price" in the package branch
LoopBody_package_not_added(code, svc, pkgs, its, sub) ==
    IF code \in DOMAIN svc
    THEN [items |-> Append(its, [code |-> code, name |-> svc[code].name,
                                 price |-> svc[code].price_single]),
          subtotal |-> FAdd(sub, svc[code].price_single)]
    ELSE IF \E i \in DOMAIN pkgs : pkgs[i].code = code
         THEN LET pkg == pkgs[CHOOSE i \in DOMAIN pkgs :
                                /\ pkgs[i].code = code
                                /\ \A j \in DOMAIN pkgs : pkgs[j].code = code => i <= j]
              IN  [items |-> Append(its, [code |-> code, name |-> pkg.title,
                                          price |-> pkg.price_single,
                                          package |-> TRUE]),
                   subtotal |-> sub]
         ELSE [items |-> its, subtotal |-> sub]

\* one iteration of the loop over payload.selected_codes: the new
\* (items, subtotal)
LoopBody(code, svc, pkgs, its, sub) ==
    IF code \in DOMAIN svc
    THEN [items |-> Append(its, ServiceItem(code, svc[code])),
          subtotal |-> FAdd(sub, svc[code].price_single)]
    ELSE IF \E i \in DOMAIN pkgs : pkgs[i].code = code
         THEN LET pkg == FirstPackage(pkgs, code)
              IN  [items |-> Append(its, PackageItem(code, pkg)),
                   subtotal |-> FAdd(sub, pkg.price_single)]
         ELSE [items |-> its, subtotal |-> sub]

\* the promo as a threshold
PromoApplies_threshold(sessions) == sessions >= 8

\* the condition of the 6+2 promo
PromoApplies(sessions) == sessions = 8

\* the total before the final rounding
PromoTotal(sub, sessions) ==
    IF PromoApplies(sessions) THEN Round2(FMul075(sub)) ELSE sub

PromoLabel(sessions) == IF PromoApplies(sessions) THEN "6 + 2 gratis" ELSE None

\* PriceCalcResponse(items, round(subtotal, 2), promo_label, round(total, 2))
PriceCalcResponse(its, sub, sessions) ==
    [status |-> 200,
     items |-> its,
     subtotal |-> Round2(sub),
     promo_label |-> PromoLabel(sessions),
     total |-> Round2(PromoTotal(sub, sessions))]

-----------------------------------------------------------------------------
(* Requests *)

Codes == {"P", "OKS", "FB-STD"}
Sessions == {-1, 0, 7, 8, 9, 16}

PriceCalcRequest ==
    [selected_codes : SeqsUpTo(Codes, MaxSel), sessions : Sessions]

BookingRequest ==
    { [type |-> "intake", name |-> "Ann", email |-> "ann@example.com",
       phone |-> "0612345678", date |-> "2026-01-05", time |-> "10:00",
       selected_codes |-> <<"OKS">>],
      [type |-> "behandeling", name |-> "Bo", email |-> "bo@example.com",
       phone |-> "0687654321", date |-> "2026-01-06", time |-> "11:30",
       selected_codes |-> <<>>] }

InquiryRequest ==
    { [name |-> "Ann", email |-> "ann@example.com", subject |-> "Prijs",
       message |-> "Wat kost een intake?"] }

NoPayload == <<>>
NoResponse == [status |-> 0]

\* an exception that leaves a handler becomes the framework's 500 response
Unhandled == [status |-> 500, detail |-> "Internal Server Error"]

\* raise HTTPException(status_code=500, detail=str(e))
HTTPException(code, detail) == [status |-> code, detail |-> detail]

Init ==
    /\ DEFAULT_SERVICES = SeedServices
    /\ DEFAULT_PACKAGES = SeedPackages
    /\ pc = "idle"
    /\ handler = "none"
    /\ payload = NoPayload
    /\ services = <<>>
    /\ packages = <<>>
    /\ k = 0
    /\ items = <<>>
    /\ subtotal = Eur(0)
    /\ response = NoResponse
    /\ calls = <<>>
    /\ docs = <<>>

\* the server takes the next request
Accepting == pc = "idle"

NoLocals ==
    /\ services' = <<>>
    /\ packages' = <<>>
    /\ k' = 0
    /\ items' = <<>>
    /\ subtotal' = Eur(0)

\* GET /api/services
list_services_request ==
    /\ Accepting
    /\ \E out \in GetDocumentsOutcomes("service") :
          LET r == list_services(out, DEFAULT_SERVICES)
          IN  /\ calls' = <<GetCall("service", out)>>
              /\ docs' = out.docs
              /\ response' = IF r.raised THEN Unhandled
                             ELSE [status |-> 200, body |-> r.value]
    /\ handler' = "services"
    /\ payload' = NoPayload
    /\ pc' = "done"
    /\ NoLocals
    /\ UNCHANGED <<DEFAULT_SERVICES, DEFAULT_PACKAGES>>

\* GET /api/packages
list_packages_request ==
    /\ Accepting
    /\ \E out \in GetDocumentsOutcomes("package") :
          LET r == list_packages(out, DEFAULT_PACKAGES)
          IN  /\ calls' = <<GetCall("package", out)>>
              /\ docs' = out.docs
              /\ response' = IF r.raised THEN Unhandled
                             ELSE [status |-> 200, body |-> r.value]
    /\ handler' = "packages"
    /\ payload' = NoPayload
    /\ pc' = "done"
    /\ NoLocals
    /\ UNCHANGED <<DEFAULT_SERVICES, DEFAULT_PACKAGES>>

\* POST /api/calc arrives with a validated PriceCalcRequest
calculate_price_begin ==
    /\ Accepting
    /\ \E p \in PriceCalcRequest : payload' = p
    /\ handler' = "calc"
    /\ pc' = "calc_services"
    /\ response' = NoResponse
    /\ calls' = <<>>
    /\ docs' = <<>>
    /\ NoLocals
    /\ UNCHANGED <<DEFAULT_SERVICES, DEFAULT_PACKAGES>>

\* services = {s.code: s for s in list_services()}
calculate_price_services ==
    /\ pc = "calc_services"
    /\ \E out \in GetDocumentsOutcomes("service") :
          LET r == list_services(out, DEFAULT_SERVICES)
          IN  /\ calls' = Append(calls, GetCall("service", out))
              /\ docs' = out.docs
              /\ IF r.raised
                 THEN /\ response' = Unhandled
                      /\ pc' = "done"
                      /\ UNCHANGED services
                 ELSE /\ services' = ServicesDict(r.value)
                      /\ pc' = "calc_packages"
                      /\ UNCHANGED response
    /\ UNCHANGED <<DEFAULT_SERVICES, DEFAULT_PACKAGES, handler, payload,
                   packages, k, items, subtotal>>

\* packages = list_packages(); items = []; subtotal = 0.0
calculate_price_packages ==
    /\ pc = "calc_packages"
    /\ \E out \in GetDocumentsOutcomes("package") :
          LET r == list_packages(out, DEFAULT_PACKAGES)
          IN  /\ calls' = Append(calls, GetCall("package", out))
              /\ docs' = out.docs
              /\ IF r.raised
                 THEN /\ response' = Unhandled
                      /\ pc' = "done"
                      /\ UNCHANGED packages
                 ELSE /\ packages' = r.value
                      /\ pc' = "calc_loop"
                      /\ UNCHANGED response
    /\ items' = <<>>
    /\ subtotal' = Eur(0)
    /\ k' = 0
    /\ UNCHANGED <<DEFAULT_SERVICES, DEFAULT_PACKAGES, handler, payload, services>>

\* the loop calling list_services() again in every iteration
calculate_price_loop_reread ==
    /\ pc = "calc_loop"
    /\ k < Len(payload.selected_codes)
    /\ \E out \in GetDocumentsOutcomes("service") :
          LET svc == ServicesDict(
                         IF out.ok /\ out.docs # <<>>
                            /\ \A i \in DOMAIN out.docs :
                                  ServiceValid(Restrict(out.docs[i], ServiceFields))
                         THEN [i \in DOMAIN out.docs |->
                                  Service(Restrict(out.docs[i], ServiceFields))]
                         ELSE DEFAULT_SERVICES)
              code == payload.selected_codes[k + 1]
          IN  /\ calls' = Append(calls, GetCall("service", out))
              /\ services' = svc
              /\ items' = IF code \in DOMAIN svc
                          THEN Append(items, [code |-> code, name |-> svc[code].name,
                                              price |-> svc[code].price_single])
                          ELSE items
              /\ subtotal' = IF code \in DOMAIN svc
                             THEN FAdd(subtotal, svc[code].price_single)
                             ELSE subtotal
    /\ k' = k + 1
    /\ UNCHANGED <<DEFAULT_SERVICES, DEFAULT_PACKAGES, pc, handler, payload,
                   packages, response, docs>>

\* one iteration of: for code in payload.selected_codes
calculate_price_loop ==
    /\ pc = "calc_loop"
    /\ k < Len(payload.selected_codes)
    /\ LET new == LoopBody(payload.selected_codes[k + 1], services, packages,
                           items, subtotal)
       IN  /\ items' = new.items
           /\ subtotal' = new.subtotal
    /\ k' = k + 1
    /\ UNCHANGED <<DEFAULT_SERVICES, DEFAULT_PACKAGES, pc, handler, payload,
                   services, packages, response, calls, docs>>

\* the loop is over: the promo rule and the response
calculate_price_return ==
    /\ pc = "calc_loop"
    /\ k = Len(payload.selected_codes)
    /\ response' = PriceCalcResponse(items, subtotal, payload.sessions)
    /\ pc' = "done"
    /\ UNCHANGED <<DEFAULT_SERVICES, DEFAULT_PACKAGES, handler, payload,
                   services, packages, k, items, subtotal, calls, docs>>

\* Create reporting a fixed detail instead of str(e)
Create_generic_detail(coll, p) ==
    \E out \in CreateDocumentOutcomes :
        /\ calls' = <<[op |-> "create_document", coll |-> coll, record |-> p,
                       ok |-> out.ok, id |-> out.id, msg |-> out.msg]>>
        /\ response' = IF out.ok
                       THEN [status |-> 200, ok |-> TRUE, id |-> out.id]
                       ELSE [status |-> 500, detail |-> "Internal Server Error"]

\* the body shared by create_booking and create_inquiry
Create(coll, p) ==
    \E out \in CreateDocumentOutcomes :
        /\ calls' = <<CreateCall(coll, p, out)>>
        /\ response' = IF out.ok
                       THEN [status |-> 200, ok |-> TRUE, id |-> out.id]
                       ELSE HTTPException(500, out.msg)

\* POST /api/book
create_booking ==
    /\ Accepting
    /\ \E p \in BookingRequest :
          /\ payload' = p
          /\ Create("booking", p)
    /\ handler' = "book"
    /\ pc' = "done"
    /\ docs' = <<>>
    /\ NoLocals
    /\ UNCHANGED <<DEFAULT_SERVICES, DEFAULT_PACKAGES>>

\* POST /api/contact
create_inquiry ==
    /\ Accepting
    /\ \E p \in InquiryRequest :
          /\ payload' = p
          /\ Create("inquiry", p)
    /\ handler' = "contact"
    /\ pc' = "done"
    /\ docs' = <<>>
    /\ NoLocals
    /\ UNCHANGED <<DEFAULT_SERVICES, DEFAULT_PACKAGES>>

\* the response is sent and the request's locals are dropped
respond ==
    /\ pc = "done"
    /\ pc' = "idle"
    /\ handler' = "none"
    /\ payload' = NoPayload
    /\ response' = NoResponse
    /\ calls' = <<>>
    /\ docs' = <<>>
    /\ NoLocals
    /\ UNCHANGED <<DEFAULT_SERVICES, DEFAULT_PACKAGES>>

Next ==
    \/ list_services_request
    \/ list_packages_request
    \/ calculate_price_begin
    \/ calculate_price_services
    \/ calculate_price_packages
    \/ calculate_price_loop
    \/ calculate_price_return
    \/ create_booking
    \/ create_inquiry
    \/ respond

Spec == Init /\ [][Next]_vars

-----------------------------------------------------------------------------
(* Vocabulary of the properties *)

CalcDone == pc = "done" /\ handler = "calc"

sel == payload.selected_codes

IsServiceCode(code) == code \in DOMAIN services
IsPackageCode(code) == \E j \in DOMAIN packages : packages[j].code = code
MatchesCatalog(code) == IsServiceCode(code) \/ IsPackageCode(code)

ItemCodes(its) == [i \in DOMAIN its |-> its[i].code]

RECURSIVE SumPrices(_)
SumPrices(its) ==
    IF its = <<>> THEN Eur(0) ELSE FAdd(its[1].price, SumPrices(Tail(its)))

\* price_single of the catalog entry a matching code resolves to
EntryPrice(code) ==
    IF IsServiceCode(code) THEN services[code].price_single
    ELSE FirstPackage(packages, code).price_single

RECURSIVE SumEntries(_)
SumEntries(codes) ==
    IF codes = <<>> THEN Eur(0)
    ELSE FAdd(EntryPrice(codes[1]), SumEntries(Tail(codes)))

\* the results round(x, 2) can give when x is only known up to the float
\* error of a product: either neighbour when x is an exact decimal tie
Round2Set(f) ==
    IF 2 * ((f.n * 100) % f.d) = f.d
    THEN {Float((f.n * 100) \div f.d, 100), Float(((f.n * 100) \div f.d) + 1, 100)}
    ELSE {Round2(f)}

-----------------------------------------------------------------------------
(* C1 *)

\* C1: the items calculate returns are exactly the selected codes that match
\* a service or package code of the catalog snapshot, in input order, one
\* item per occurrence (no deduplication, nothing for an unmatched code, no
\* error); the same holds of the codes consumed so far during the loop.
C1_ItemsAreMatchedCodesInOrder ==
    /\ pc = "calc_loop" =>
          ItemCodes(items) = SelectSeq(SubSeq(sel, 1, k), MatchesCatalog)
    /\ CalcDone =>
          /\ response.status = 200
          /\ ItemCodes(response.items) = SelectSeq(sel, MatchesCatalog)

\* a selection with an unmatched code followed by a matched code given twice
C1_Witness ==
    /\ CalcDone
    /\ Len(sel) = 3
    /\ ~MatchesCatalog(sel[1])
    /\ MatchesCatalog(sel[2])
    /\ sel[3] = sel[2]
    /\ Len(response.items) = 2

-----------------------------------------------------------------------------
(* C2 *)

\* C2 as stated: the returned subtotal equals the sum of the price fields of
\* the returned line items.
C2_SubtotalIsExactSum ==
    CalcDone => response.subtotal = SumPrices(response.items)

\* C2, amended: the returned subtotal is the sum of the price fields of the
\* returned line items rounded to 2 decimal places; that sum is the sum of
\* price_single of the matched catalog entries, once per occurrence in the
\* input; with no line item the subtotal and the total are 0.
C2_SubtotalIsRoundedSum ==
    CalcDone =>
        /\ response.subtotal = Round2(SumPrices(response.items))
        /\ SumPrices(response.items) = SumEntries(SelectSeq(sel, MatchesCatalog))
        /\ response.items = <<>> =>
              /\ response.subtotal = Eur(0)
              /\ response.total = Eur(0)

\* two line items whose exact sum has more than 2 decimals
C2_Witness ==
    /\ CalcDone
    /\ Len(response.items) = 2
    /\ response.subtotal # SumPrices(response.items)

-----------------------------------------------------------------------------
(* C3 *)

-----------------------------------------------------------------------------
(* C4 *)

FromPackage(it) == ~IsServiceCode(it.code) /\ IsPackageCode(it.code)
FromService(it) == IsServiceCode(it.code)

PackageTitles(code) ==
    {packages[j].title : j \in {j \in DOMAIN packages : packages[j].code = code}}

\* C4 as stated: a line item from a package match carries is_package = true
\* and the package's title; one from a service match carries no is_package.
C4_IsPackageField ==
    CalcDone =>
        \A i \in DOMAIN response.items :
            LET it == response.items[i]
            IN  /\ FromPackage(it) =>
                      /\ "is_package" \in DOMAIN it
                      /\ it["is_package"] = TRUE
                      /\ it.name \in PackageTitles(it.code)
                /\ FromService(it) => "is_package" \notin DOMAIN it

\* C4, amended: a line item from a package match carries the field
\* "package" with value true and the package's title as name; one from a
\* service match has the fields code, name and price only.
C4_PackageField ==
    CalcDone =>
        \A i \in DOMAIN response.items :
            LET it == response.items[i]
            IN  /\ FromPackage(it) =>
                      /\ DOMAIN it = {"code", "name", "price", "package"}
                      /\ it["package"] = TRUE
                      /\ it.name \in PackageTitles(it.code)
                /\ FromService(it) => DOMAIN it = {"code", "name", "price"}

\* a service item followed by a package item
C4_Witness ==
    /\ CalcDone
    /\ Len(response.items) >= 2
    /\ FromService(response.items[1])
    /\ FromPackage(response.items[2])

-----------------------------------------------------------------------------
(* C5 *)

ReadFailedOrEmpty(call) == ~call.ok \/ docs = <<>>

\* C5: when the read of a collection fails or returns no record, the
\* resolver of that collection returns exactly the built-in seed list, as a
\* list endpoint's response and as calculate_price's snapshot; and the seed
\* lists never change.
C5_FallbackIsSeedList ==
    /\ DEFAULT_SERVICES = SeedServices
    /\ DEFAULT_PACKAGES = SeedPackages
    /\ (pc = "done" /\ handler = "services" /\ ReadFailedOrEmpty(calls[1])) =>
          response = [status |-> 200, body |-> SeedServices]
    /\ (pc = "done" /\ handler = "packages" /\ ReadFailedOrEmpty(calls[1])) =>
          response = [status |-> 200, body |-> SeedPackages]
    /\ (pc = "calc_packages" /\ ReadFailedOrEmpty(calls[1])) =>
          services = ServicesDict(SeedServices)
    /\ (pc = "calc_loop" /\ k = 0 /\ ReadFailedOrEmpty(calls[2])) =>
          packages = SeedPackages

\* the service read succeeded with no record and the seed list came back
C5_Witness ==
    /\ pc = "done"
    /\ handler = "services"
    /\ calls[1].ok
    /\ docs = <<>>
    /\ response.body = SeedServices

-----------------------------------------------------------------------------
(* C6 *)

\* body is built from the records read, one entry per record, holding the
\* record's known fields and the defaults of the others
BuiltFromDocs(body, fields, defaults) ==
    /\ Len(body) = Len(docs)
    /\ \A i \in DOMAIN docs :
          /\ DOMAIN body[i] = fields
          /\ \A f \in fields :
                body[i][f] = IF f \in DOMAIN docs[i] THEN docs[i][f] ELSE defaults[f]

SomeInvalidService ==
    \E i \in DOMAIN docs : ~ServiceValid(Restrict(docs[i], ServiceFields))
SomeInvalidPackage ==
    \E i \in DOMAIN docs : ~PackageValid(Restrict(docs[i], PackageFields))

\* no entry of body has the code of a record read
NothingFromDocs(body) ==
    \A j \in DOMAIN body : \A i \in DOMAIN docs : body[j].code # docs[i].code

\* C6: a resolver's result is either the whole seed list or built only from
\* the stored records, one entry per record restricted to the known fields;
\* when a record read fails validation the result is the seed list and holds
\* nothing derived from the records.
C6_AllOrNothing ==
    /\ (pc = "done" /\ handler = "services") =>
          /\ \/ response.body = SeedServices
             \/ BuiltFromDocs(response.body, ServiceFields, ServiceDefaults)
          /\ SomeInvalidService =>
                response.body = SeedServices /\ NothingFromDocs(response.body)
    /\ (pc = "done" /\ handler = "packages") =>
          /\ \/ response.body = SeedPackages
             \/ BuiltFromDocs(response.body, PackageFields, PackageDefaults)
          /\ SomeInvalidPackage =>
                response.body = SeedPackages /\ NothingFromDocs(response.body)
    /\ (pc = "calc_packages" /\ SomeInvalidService) =>
          services = ServicesDict(SeedServices)
    /\ (pc = "calc_loop" /\ k = 0 /\ SomeInvalidPackage) =>
          packages = SeedPackages

\* a valid record followed by an invalid one: the seed list comes back
C6_Witness ==
    /\ pc = "done"
    /\ handler = "services"
    /\ Len(docs) = 2
    /\ ServiceValid(Restrict(docs[1], ServiceFields))
    /\ ~ServiceValid(Restrict(docs[2], ServiceFields))
    /\ response.body = SeedServices

-----------------------------------------------------------------------------
(* C7 *)

\* C7: calculate always ends with a CalcResult (status 200 with items,
\* subtotal, promo_label and total), whatever the selection, the sessions
\* and the outcome of the two reads.
C7_CalcNeverFails ==
    CalcDone =>
        /\ response.status = 200
        /\ DOMAIN response = {"status", "items", "subtotal", "promo_label", "total"}

\* the service read raised and the package read returned an invalid record
C7_Witness ==
    /\ CalcDone
    /\ ~calls[1].ok
    /\ calls[2].ok
    /\ SomeInvalidPackage
    /\ response.status = 200

-----------------------------------------------------------------------------
(* C8 *)

CreatedOnce(coll) ==
    /\ Len(calls) = 1
    /\ calls[1].op = "create_document"
    /\ calls[1].coll = coll
    /\ calls[1].record = payload
    /\ IF calls[1].ok
       THEN response = [status |-> 200, ok |-> TRUE, id |-> calls[1].id]
       ELSE response = [status |-> 500, detail |-> calls[1].msg]

\* C8: a book request makes exactly one create-document call, on "booking",
\* a contact request exactly one, on "inquiry"; the response is
\* {ok: true, id} with the generated id, or status 500 with the failure
\* message as detail; list and calc requests make no create-document call.
C8_CreateOnceAndReport ==
    /\ (pc = "done" /\ handler = "book") => CreatedOnce("booking")
    /\ (pc = "done" /\ handler = "contact") => CreatedOnce("inquiry")
    /\ handler \in {"services", "packages", "calc"} =>
          \A i \in DOMAIN calls : calls[i].op = "get_documents"

\* a booking whose create-document call failed
C8_Witness ==
    /\ pc = "done"
    /\ handler = "book"
    /\ ~calls[1].ok
    /\ response.status = 500
    /\ response.detail = "duplicate key"

-----------------------------------------------------------------------------
(* C9 *)

\* C9: a line item whose code is a service code is the service's item
\* (service name and price_single, no package flag) even when a package has
\* the same code; any other line item is the item of the first package, in
\* catalog order, with that code.
C9_ServiceFirstThenFirstPackage ==
    CalcDone =>
        \A i \in DOMAIN response.items :
            LET it == response.items[i]
            IN  IF IsServiceCode(it.code)
                THEN it = [code |-> it.code, name |-> services[it.code].name,
                           price |-> services[it.code].price_single]
                ELSE \E j \in DOMAIN packages :
                        /\ packages[j].code = it.code
                        /\ \A h \in 1..(j - 1) : packages[h].code # it.code
                        /\ it = [code |-> it.code, name |-> packages[j].title,
                                 price |-> packages[j].price_single,
                                 package |-> TRUE]

\* two different packages with the selected code, which is no service code
C9_Witness ==
    /\ CalcDone
    /\ Len(packages) = 2
    /\ packages[1].code = packages[2].code
    /\ packages[1].title # packages[2].title
    /\ \E i \in DOMAIN response.items :
          /\ response.items[i].code = packages[1].code
          /\ response.items[i].name = packages[1].title

-----------------------------------------------------------------------------
(* C10 *)

\* the persistence reads a calc request has made at each position
CalcReads ==
    handler = "calc" =>
        /\ pc = "calc_services" => calls = <<>>
        /\ pc = "calc_packages" =>
              Len(calls) = 1 /\ calls[1].coll = "service"
        /\ pc \in {"calc_loop", "done"} =>
              /\ Len(calls) = 2
              /\ calls[1].coll = "service"
              /\ calls[2].coll = "package"

\* a step of the loop over the codes reads nothing and keeps both snapshots
LoopKeepsSnapshot ==
    pc = "calc_loop" =>
        /\ calls' = calls
        /\ services' = services
        /\ packages' = packages

\* C10: one calculate call reads each collection exactly once, services then
\* packages, before any code is resolved, and no step of the loop reads
\* again or changes a snapshot, whatever the store returns meanwhile.
C10_OneSnapshotPerCall == [](CalcReads) /\ [][LoopKeepsSnapshot]_vars

\* two codes resolved after a service read that returned records and a
\* package read that failed
C10_Witness ==
    /\ CalcDone
    /\ Len(sel) >= 2
    /\ Len(response.items) >= 2
    /\ calls[1].ok
    /\ ~calls[2].ok

====
